---------------------------- MODULE Spec2Model ----------------------------
(***************************************************************************)
(* A model of src/src/CBOR.cpp (qindesign::cbor): the streaming Reader     *)
(* (Reader::readDataType and its accessors) and the recursive              *)
(* well-formedness checker (Reader::isWellFormed), and the Writer.          *)
(*                                                                         *)
(* Numbers.  TLC's integers are 32 bits wide, so a uint64_t is a tuple of  *)
(* four 16-bit limbs, most significant first, and the 64-bit arithmetic    *)
(* the code does (shifts, doubling with wrap-around, comparison,           *)
(* decrement) is done limb by limb.                                        *)
(*                                                                         *)
(* Stream.  The input Stream in_ is the sequence of bytes that are         *)
(* readable now: read() removes the first one or returns -1, available()   *)
(* is its length.  Bytes the transport has not delivered yet wait in       *)
(* `pending` and are moved to in_ by Feed.                                 *)
(*                                                                         *)
(* Reads inside one expression, such as (read() << 8) | read(), are taken  *)
(* in the order they are written.                                          *)
(***************************************************************************)
EXTENDS Integers, Sequences, FiniteSets, TLC

VARIABLES
    \* ---- the transport
    input,          \* every byte the transport will ever deliver (fixed)
    pending,        \* bytes not delivered yet
    in_,            \* Reader::in_: bytes readable now
    \* ---- the Reader's decode record (fields of class Reader)
    state_, initialByte_, value_, syntaxError_, majorType_, addlInfo_,
    waitAvailable_,
    \* ---- what the caller saw (history)
    lastRet,        \* value returned by the last readDataType call
    lastFrom,       \* state_ when that call was made
    lastFed,        \* number of bytes delivered when that call was made
    nDone,          \* calls that returned a type other than kEOS, counted
                    \* up to DoneCap
    hdr,            \* bytes readDataType consumed for the current item
    payload,        \* the payload of the last Bytes or Text head: "owed"
                    \* (the caller has to read it), "read", "short" (the
                    \* stream had fewer bytes), or "none"
    \* ---- the last well-formedness check (history)
    wfIn,           \* in_ when the check was called
    wfBreakable,    \* its argument
    wfRet,          \* its int result (-3 before any check)
    wfHeads,        \* the item heads it read: position, initial byte,
                    \*   one-byte argument or -1
    \* ---- the Writer
    out_,           \* Writer::out_: the bytes printed so far
    wrote,          \* the Writer call that printed them and its argument
                    \*   (history)
    \* ---- the well-formedness check taken step by step
    stack           \* the calls of isWellFormed(bool) in progress, innermost
                    \*   first, each at its place in the code

vars == <<input, pending, in_, state_, initialByte_, value_, syntaxError_,
          majorType_, addlInfo_, waitAvailable_, lastRet, lastFrom,
          lastFed, nDone, hdr, payload, wfIn, wfBreakable, wfRet, wfHeads,
          out_, wrote, stack>>

readerVars == <<state_, initialByte_, value_, syntaxError_, majorType_,
                addlInfo_, waitAvailable_>>
callVars == <<lastRet, lastFrom, lastFed, nDone, hdr>>
wfVars == <<wfIn, wfBreakable, wfRet, wfHeads>>
wrVars == <<out_, wrote>>

-----------------------------------------------------------------------------
(* Major types, CBOR.cpp lines 14-21 *)
kUnsignedInt == 0
kNegativeInt == 1
kBytes == 2
kText == 3
kArray == 4
kMap == 5
kTag == 6
kSimpleOrFloat == 7

Byte == 0..255

-----------------------------------------------------------------------------
(* uint64_t as four 16-bit limbs, most significant first *)
Limb == 256 * 256

U64(n) == <<0, 0, n \div Limb, n % Limb>>

U64Zero == <<0, 0, 0, 0>>

\* a <= b
U64Leq(a, b) ==
    \/ a = b
    \/ \E i \in 1..4 : a[i] < b[i] /\ \A j \in 1..(i-1) : a[j] = b[j]

\* (a << 1) on 64 bits: the bit shifted out of the top limb is lost
U64Shl1(a) ==
    LET c(i) == IF i < 4 /\ a[i+1] >= Limb \div 2 THEN 1 ELSE 0
    IN  [i \in 1..4 |-> ((2 * a[i]) % Limb) + c(i)]

\* a - 1, for a # 0
U64Dec(a) ==
    LET low0(i) == \A j \in (i+1)..4 : a[j] = 0
    IN  [i \in 1..4 |->
            IF ~low0(i) THEN a[i]
            ELSE IF a[i] = 0 THEN Limb - 1 ELSE a[i] - 1]

\* a < b
U64Lt(a, b) == a # b /\ U64Leq(a, b)

\* ~a: every bit flipped
U64Not(a) == [i \in 1..4 |-> Limb - 1 - a[i]]

\* the exclusive or of the low n bits of a and b
RECURSIVE XorBits(_, _, _)
XorBits(a, b, n) ==
    IF n = 0 THEN 0
    ELSE ((a + b) % 2) + 2 * XorBits(a \div 2, b \div 2, n - 1)

\* a ^ b
U64Xor(a, b) == [i \in 1..4 |-> XorBits(a[i], b[i], 16)]

\* static_cast<uint8_t>(a >> sh), for sh a multiple of 8 below 64
U64Byte(a, sh) ==
    LET limb == a[4 - (sh \div 16)]
    IN  IF sh % 16 = 8 THEN limb \div 256 ELSE limb % 256

RECURSIVE Pow2(_)
Pow2(n) == IF n = 0 THEN 1 ELSE 2 * Pow2(n - 1)

\* the position of the highest set bit of n > 0
RECURSIVE Log2(_)
Log2(n) == IF n < 2 THEN 0 ELSE 1 + Log2(n \div 2)

\* the value as a TLC integer, for values below 2^31
U64Small(a) == a[3] * Limb + a[4]

\* big-endian assembly of 1, 2, 4 or 8 bytes, as the shifts and ors do it
U64FromBytes(bs) ==
    LET n == Len(bs)
        b(i) == IF i >= 1 THEN bs[i] ELSE 0
        limb(k) == b(n - 2*k - 1) * 256 + b(n - 2*k)   \* k = 0: lowest limb
    IN  <<limb(3), limb(2), limb(1), limb(0)>>

-----------------------------------------------------------------------------
(* Stream *)
\* Stream::read(): the next byte, or -1 when none is readable now
StreamRead(s) ==
    IF s = <<>> THEN [b |-> -1, in_ |-> s]
    ELSE [b |-> Head(s), in_ |-> Tail(s)]

\* Stream::available()
StreamAvailable(s) == Len(s)

\* n successive read() calls: the values they return (-1 from the call on
\* that finds the stream empty) and the stream left
StreamReadN(s, n) ==
    [bs |-> [i \in 1..n |-> IF i <= Len(s) THEN s[i] ELSE -1],
     in_ |-> SubSeq(s, n + 1, Len(s))]


-----------------------------------------------------------------------------
(* Reader::readDataType, CBOR.cpp lines 27-201.                            *)
(* The function is a chain of `if (state_ == ...)` blocks that fall        *)
(* through to one another.  Each block is an operator on the record m of   *)
(* the Reader's fields, the stream and the value returned so far           *)
(* (ret = "running" until a return statement is reached).                  *)

Fresh(s) ==
    [state_ |-> "kStart", initialByte_ |-> 0, value_ |-> U64Zero,
     syntaxError_ |-> "kNoError", majorType_ |-> 0, addlInfo_ |-> 0,
     waitAvailable_ |-> 0, in_ |-> s, hdr |-> <<>>, ret |-> "running"]

Return(m, t) == [m EXCEPT !.ret = t]

\* the number of argument bytes additional info 24..27 announces
ArgBytes(addl) ==
    CASE addl = 24 -> 1
      [] addl = 25 -> 2
      [] addl = 26 -> 4
      [] addl = 27 -> 8
      [] OTHER -> 0

\* a variant of StartNoByte that leaves the fields of the last item alone
StartNoByte_KeepFields(m1) == Return(m1, "kEOS")

\* lines 34-39: no initial byte to read
StartNoByte(m1) ==
    Return([m1 EXCEPT !.majorType_ = 0, !.addlInfo_ = 0,
                      !.waitAvailable_ = 0, !.hdr = <<>>], "kEOS")

\* lines 29-43: read the initial byte
BlkStart(m) ==
    IF m.ret # "running" \/ m.state_ # "kStart" THEN m
    ELSE LET r == StreamRead(m.in_)
             m1 == [m EXCEPT !.initialByte_ = r.b, !.in_ = r.in_,
                             !.value_ = U64Zero,
                             !.syntaxError_ = "kNoError"]
         IN  IF r.b < 0
             THEN StartNoByte(m1)
             ELSE [m1 EXCEPT !.majorType_ = r.b \div 32,
                             !.addlInfo_ = r.b % 32,
                             !.state_ = "kAdditionalInfo",
                             !.hdr = <<r.b>>]

\* a variant of IsNotAnIndefiniteType that refuses a Break as well
IsNotAnIndefiniteType_NoBreak(mt) ==
    mt \in {kUnsignedInt, kNegativeInt, kTag, kSimpleOrFloat}

\* a variant of IsNotAnIndefiniteType that forgets tags
IsNotAnIndefiniteType_NoTag(mt) == mt \in {kUnsignedInt, kNegativeInt}

\* lines 71-76: the major types that have no indefinite-length form
IsNotAnIndefiniteType(mt) == mt \in {kUnsignedInt, kNegativeInt, kTag}

\* lines 46-86: note how many argument bytes are needed
BlkAdditionalInfo(m) ==
    IF m.ret # "running" \/ m.state_ # "kAdditionalInfo" THEN m
    ELSE LET m1 == [m EXCEPT !.waitAvailable_ = 0]
             a == m.addlInfo_
         IN  CASE a \in 24..27 ->
                    [m1 EXCEPT !.waitAvailable_ = ArgBytes(a),
                               !.state_ = "kWaitAvailable"]
               [] a \in 28..30 ->
                    Return([m1 EXCEPT
                              !.syntaxError_ = "kUnknownAdditionalInfo"],
                           "kSyntaxError")
               [] a = 31 ->
                    IF IsNotAnIndefiniteType(m.majorType_)
                    THEN Return([m1 EXCEPT
                                   !.syntaxError_ = "kNotAnIndefiniteType"],
                                "kSyntaxError")
                    ELSE [m1 EXCEPT !.state_ = "kReadValue"]
               [] OTHER -> [m1 EXCEPT !.state_ = "kReadValue"]

\* a variant of TooFewAvailable that never waits
TooFewAvailable_Never(m) == FALSE

\* a variant of TooFewAvailable that is off by one
TooFewAvailable_OffByOne(m) == StreamAvailable(m.in_) <= m.waitAvailable_

\* line 90: in_.available() < waitAvailable_
TooFewAvailable(m) == StreamAvailable(m.in_) < m.waitAvailable_

\* lines 89-94: wait until the argument bytes are available
BlkWaitAvailable(m) ==
    IF m.ret # "running" \/ m.state_ # "kWaitAvailable" THEN m
    ELSE IF TooFewAvailable(m)
         THEN Return(m, "kEOS")
         ELSE [m EXCEPT !.state_ = "kReadValue"]

\* lines 97-138: read the argument, most significant byte first
BlkReadValue(m) ==
    IF m.ret # "running" \/ m.state_ # "kReadValue" THEN m
    ELSE LET a == m.addlInfo_
             r == StreamReadN(m.in_, ArgBytes(a))
         IN  [m EXCEPT
                !.value_ = CASE a \in 24..27 -> U64FromBytes(r.bs)
                             [] a = 31 -> U64Zero
                             [] OTHER -> U64(a),
                !.in_ = r.in_,
                !.hdr = @ \o r.bs,
                !.state_ = "kDetermineType"]

\* lines 140-198: map major type and additional info to a DataType
BlkDetermineType(m) ==
    IF m.ret # "running" \/ m.state_ # "kDetermineType" THEN m
    ELSE LET m1 == [m EXCEPT !.state_ = "kStart"]
             a == m.addlInfo_
             zero == [m1 EXCEPT !.value_ = U64Zero]
         IN  CASE m.majorType_ = kUnsignedInt -> Return(m1, "kUnsignedInt")
               [] m.majorType_ = kNegativeInt -> Return(m1, "kNegativeInt")
               [] m.majorType_ = kBytes -> Return(m1, "kBytes")
               [] m.majorType_ = kText -> Return(m1, "kText")
               [] m.majorType_ = kArray -> Return(m1, "kArray")
               [] m.majorType_ = kMap -> Return(m1, "kMap")
               [] m.majorType_ = kTag -> Return(m1, "kTag")
               [] m.majorType_ = kSimpleOrFloat ->
                    CASE a \in {20, 21} -> Return(zero, "kBoolean")
                      [] a = 22 -> Return(zero, "kNull")
                      [] a = 23 -> Return(zero, "kUndefined")
                      [] a = 24 ->
                           IF U64Leq(m.value_, U64(31))
                           THEN Return([m1 EXCEPT
                                          !.syntaxError_ = "kBadSimpleValue"],
                                       "kSyntaxError")
                           ELSE Return(m1, "kSimpleValue")
                      [] a \in {25, 26} -> Return(m1, "kFloat")
                      [] a = 27 -> Return(m1, "kDouble")
                      [] a \in 28..30 ->
                           Return([m1 EXCEPT
                                     !.syntaxError_ = "kUnknownAdditionalInfo"],
                                  "kSyntaxError")
                      [] a = 31 -> Return(zero, "kBreak")
                      [] OTHER -> Return(m1, "kSimpleValue")
               [] OTHER -> Return(m1, "kUnsignedInt")

\* line 200: the final return
BlkEnd(m) == IF m.ret = "running" THEN Return(m, "kEOS") ELSE m

readDataType(m) ==
    BlkEnd(BlkDetermineType(BlkReadValue(BlkWaitAvailable(
        BlkAdditionalInfo(BlkStart([m EXCEPT !.ret = "running"]))))))

\* a variant of isIndefiniteLength that does not look at the major type
isIndefiniteLength_AnyMajor(m) == m.addlInfo_ = 31

\* Reader::isIndefiniteLength, lines 215-224
isIndefiniteLength(m) ==
    IF m.majorType_ \in {kBytes, kText, kArray, kMap}
    THEN m.addlInfo_ = 31
    ELSE FALSE

\* Reader::getLength, lines 226-228
getLength(m) == m.value_

\* Reader::getSyntaxError, lines 207-209
getSyntaxError(m) == m.syntaxError_

\* Reader::readBytes, lines 203-205: in_.readBytes(buffer, length) takes
\* the bytes that are there, up to length, and returns how many it took
readBytes(s, length) ==
    LET n == IF U64Leq(length, U64(Len(s))) THEN U64Small(length)
             ELSE Len(s)
    IN  [n |-> n, in_ |-> SubSeq(s, n + 1, Len(s))]

\* Reader::getSimpleValue, lines 341-346: static_cast<uint8_t>(value_)
getSimpleValue(m) ==
    IF m.majorType_ = kSimpleOrFloat THEN m.value_[4] % 256 ELSE 0

\* Reader::getInt, lines 334-339.  The int64_t result is given as its
\* two's-complement bit pattern; on 64 bits -1 - x is x with every bit
\* flipped, and static_cast<int64_t> keeps the bits of value_.
getInt(m) ==
    IF m.majorType_ = kNegativeInt THEN U64Not(m.value_) ELSE U64Zero

(* Floating point.  A double is its 64-bit IEEE-754 pattern (sign, 11      *)
(* exponent bits, 52 fraction bits) and a float its 32-bit pattern (sign,  *)
(* 8 exponent bits, 23 fraction bits), held in the low two limbs.  The     *)
(* fraction of a double is handled as its top 23 and its low 29 bits.      *)

DblMake(s, e, fhi, flo) ==
    <<s * (Limb \div 2) + e * 16 + fhi \div Pow2(19),
      (fhi \div 8) % Limb,
      (fhi % 8) * Pow2(13) + flo \div Limb,
      flo % Limb>>

DblSign(d) == d[1] \div (Limb \div 2)

DblExp(d) == (d[1] % (Limb \div 2)) \div 16

DblFracHi(d) == (d[1] % 16) * Pow2(19) + d[2] * 8 + d[3] \div Pow2(13)

DblFracLo(d) == (d[3] % Pow2(13)) * Limb + d[4]

\* a float from its fields; a fraction of 2^23 carries into the exponent
FltMake(s, e, f) ==
    <<0, 0, s * (Limb \div 2) + e * 128 + f \div Limb, f % Limb>>

FltSign(b) == b[3] \div (Limb \div 2)

FltExp(b) == (b[3] % (Limb \div 2)) \div 128

FltFrac(b) == (b[3] % 128) * Limb + b[4]

\* ldexp(m, x) for an integer 0 <= m < 2^24 and a result in the normal
\* range of a double: m * 2^x, which is exact
Ldexp(m, x) ==
    IF m = 0 THEN DblMake(0, 0, 0, 0)
    ELSE LET k == Log2(m)
         IN  DblMake(0, k + x + 1023, (m - Pow2(k)) * Pow2(23 - k), 0)

\* copysign(val, sign) with sign = -1 or 1
Copysign(val, negative) ==
    DblMake(IF negative THEN 1 ELSE 0, DblExp(val), DblFracHi(val),
            DblFracLo(val))

\* the conversion float -> double (`return f;` at line 276): exact; a
\* subnormal float becomes a normal double, a NaN stays a NaN (quiet)
WidenFloat(b) ==
    LET s == FltSign(b)
        e == FltExp(b)
        f == FltFrac(b)
    IN  CASE e = 255 ->
               DblMake(s, 2047, IF f = 0 THEN 0
                                ELSE f + (IF f < Pow2(22) THEN Pow2(22) ELSE 0),
                       0)
          [] e = 0 /\ f = 0 -> DblMake(s, 0, 0, 0)
          [] e = 0 /\ f # 0 ->
               LET k == Log2(f)
               IN  DblMake(s, k - 149 + 1023, (f - Pow2(k)) * Pow2(23 - k), 0)
          [] OTHER -> DblMake(s, e - 127 + 1023, f, 0)

\* the conversion double -> float (static_cast<float> at line 243), which
\* rounds to nearest, ties to even
NarrowDouble(d) ==
    LET s == DblSign(d)
        e == DblExp(d)
        fhi == DblFracHi(d)
        flo == DblFracLo(d)
        x == e - 1023
        sh == -126 - x
        full == Pow2(23) + fhi
        q == full \div Pow2(sh)
        r == full % Pow2(sh)
        upNormal == \/ flo > Pow2(28)
                    \/ flo = Pow2(28) /\ fhi % 2 = 1
        upSub == \/ r > Pow2(sh - 1)
                 \/ r = Pow2(sh - 1) /\ (flo > 0 \/ q % 2 = 1)
    IN  CASE e = 2047 ->
               IF fhi = 0 /\ flo = 0 THEN FltMake(s, 255, 0)
               ELSE FltMake(s, 255,
                            fhi + (IF fhi < Pow2(22) THEN Pow2(22) ELSE 0))
          [] e = 0 -> FltMake(s, 0, 0)
          [] x > 127 -> FltMake(s, 255, 0)
          [] x >= -126 ->
               FltMake(s, x + 127, fhi + (IF upNormal THEN 1 ELSE 0))
          [] sh > 25 -> FltMake(s, 0, 0)
          [] OTHER -> FltMake(s, 0, q + (IF upSub THEN 1 ELSE 0))

\* lines 254-256
kBitsM == 10
kBitsE == 5
kExpBias == Pow2(kBitsE - 1) - 1

\* a variant of HalfExponent with the bias of a float
HalfExponent_FloatBias(e) == e - 127 - kBitsM

\* line 264: the power of two a normal half-precision fraction is scaled by
HalfExponent(e) == e - kExpBias - kBitsM

\* Reader::getDouble, lines 246-325
getDouble(m) ==
    IF m.majorType_ # kSimpleOrFloat THEN DblMake(0, 0, 0, 0)
    ELSE CASE m.addlInfo_ = 25 ->
                LET half == m.value_[4]
                    e == (half \div Pow2(kBitsM)) % Pow2(kBitsE)
                    f == half % Pow2(kBitsM)
                    val == IF e = 0 THEN Ldexp(f, 1 - kExpBias - kBitsM)
                           ELSE IF e # Pow2(kBitsE) - 1
                           THEN Ldexp(f + Pow2(kBitsM), HalfExponent(e))
                           ELSE IF f = 0 THEN DblMake(0, 2047, 0, 0)
                           ELSE DblMake(0, 2047, Pow2(22), 0)
                IN  Copysign(val, (half \div Pow2(kBitsM + kBitsE)) % 2 = 1)
           [] m.addlInfo_ = 26 ->
                WidenFloat(<<0, 0, m.value_[3], m.value_[4]>>)
           [] m.addlInfo_ = 27 -> m.value_
           [] OTHER -> DblMake(0, 0, 0, 0)

\* Reader::getFloat, lines 242-244
getFloat(m) == NarrowDouble(getDouble(m))

-----------------------------------------------------------------------------
(* Well-formedness checks, CBOR.cpp lines 359-535.                         *)
(* Reader::isWellFormed(bool) and Reader::isIndefiniteWellFormed call each *)
(* other; each takes the stream as it finds it and returns its int result  *)
(* with the stream as it leaves it.  `heads` collects, for every item the  *)
(* check started, where it stood (which call read it, and the major type   *)
(* of the item around it), its initial byte and its one-byte argument (-1  *)
(* when it has none): a record of what was read, kept for the properties   *)
(* below.                                                                  *)

\* where an item stands: at the top, or inside an item of major type `of`
Pos(at, of) == [at |-> at, of |-> of]

Top == Pos("top", -1)

Result(ret, s, heads) == [ret |-> ret, in_ |-> s, heads |-> heads]

\* all of the bytes were read (none of the read() calls returned -1); for
\* the shifted ors of lines 388-417 this is v >= 0
AllRead(bs) == \A i \in 1..Len(bs) : bs[i] >= 0

\* a variant of ReadArgument that looks at a one-byte argument and leaves
\* it in the stream
ReadArgument_Peek(ai, s) ==
    [ok |-> TRUE,
     val |-> U64(IF ai = 24 /\ s # <<>> THEN s[1] ELSE ai),
     in_ |-> s]

\* lines 375-427: the argument that follows the initial byte.  Additional
\* info 27 is read as two halves of four bytes, the second only when the
\* first was complete.
ReadArgument(ai, s) ==
    CASE ai \in 24..26 ->
            LET r == StreamReadN(s, ArgBytes(ai))
            IN  [ok |-> AllRead(r.bs), val |-> U64FromBytes(r.bs),
                 in_ |-> r.in_]
      [] ai = 27 ->
            LET r1 == StreamReadN(s, 4)
                r2 == StreamReadN(r1.in_, 4)
            IN  IF ~AllRead(r1.bs)
                THEN [ok |-> FALSE, val |-> U64Zero, in_ |-> r1.in_]
                ELSE [ok |-> AllRead(r2.bs),
                      val |-> U64FromBytes(r1.bs \o r2.bs), in_ |-> r2.in_]
      [] OTHER -> [ok |-> TRUE, val |-> U64(ai), in_ |-> s]

\* a variant of IsBadSimple that lets every one-byte simple value pass
IsBadSimple_None(majorType, val) == FALSE

\* line 382: a simple value below 32 in the one-byte form
IsBadSimple(majorType, val) ==
    majorType = kSimpleOrFloat /\ U64Leq(val, U64(31))

\* a variant of MapOverflows without the guard
MapOverflows_NoGuard(val) == FALSE

\* line 449: val != 0 && 2*val <= val, on 64 bits
MapOverflows(val) == val # U64Zero /\ U64Leq(U64Shl1(val), val)

\* a variant of BreakResult that always reports a Break
BreakResult_Always(breakable) == -2

\* lines 525-528: a Break is reported only where one may stand
BreakResult(breakable) == IF breakable THEN -2 ELSE -1

\* a variant of Accept that reports success as 0
Accept_Zero(majorType) == 0

\* lines 479 and 534: success is reported as the major type
Accept(majorType) == majorType

\* a variant of ReadPayload that does not mind a payload cut short
ReadPayload_Lenient(val, s) ==
    [ok |-> TRUE, in_ |-> SubSeq(s, U64Small(val) + 1, Len(s))]

\* lines 433-445: read val payload bytes (the loop counts in 32 bits when
\* val fits and in 64 bits otherwise: the same number of rounds)
RECURSIVE ReadPayload(_, _)
ReadPayload(val, s) ==
    IF val = U64Zero THEN [ok |-> TRUE, in_ |-> s]
    ELSE LET r == StreamRead(s)
         IN  IF r.b < 0 THEN [ok |-> FALSE, in_ |-> r.in_]
             ELSE ReadPayload(U64Dec(val), r.in_)

RECURSIVE isWellFormedB(_, _, _, _), isIndefiniteWellFormed(_, _, _, _),
          CheckElements(_, _, _, _), CheckChunks(_, _, _), CheckItems(_, _),
          CheckPairs(_, _)

\* lines 455-467: val elements, each checked with isWellFormed(false)
CheckElements(majorType, val, s, heads) ==
    IF val = U64Zero THEN Result(0, s, heads)
    ELSE LET r == isWellFormedB(FALSE, Pos("element", majorType), s, heads)
         IN  IF r.ret < 0 THEN Result(-1, r.in_, r.heads)
             ELSE CheckElements(majorType, U64Dec(val), r.in_, r.heads)

\* lines 486-497: the chunks of an indefinite-length string
CheckChunks(majorType, s, heads) ==
    LET r == isWellFormedB(TRUE, Pos("chunk", majorType), s, heads)
    IN  IF r.ret = -2 THEN Result(0, r.in_, r.heads)
        ELSE IF r.ret = -1 THEN Result(-1, r.in_, r.heads)
        ELSE IF r.ret # majorType THEN Result(-1, r.in_, r.heads)
        ELSE CheckChunks(majorType, r.in_, r.heads)

\* lines 500-508: the items of an indefinite-length array
CheckItems(s, heads) ==
    LET r == isWellFormedB(TRUE, Pos("item", kArray), s, heads)
    IN  IF r.ret = -2 THEN Result(0, r.in_, r.heads)
        ELSE IF r.ret = -1 THEN Result(-1, r.in_, r.heads)
        ELSE CheckItems(r.in_, r.heads)

\* lines 511-522: the key/value pairs of an indefinite-length map
CheckPairs(s, heads) ==
    LET k == isWellFormedB(TRUE, Pos("key", kMap), s, heads)
    IN  IF k.ret = -2 THEN Result(0, k.in_, k.heads)
        ELSE IF k.ret = -1 THEN Result(-1, k.in_, k.heads)
        ELSE LET v == isWellFormedB(FALSE, Pos("value", kMap), k.in_, k.heads)
             IN  IF v.ret < 0 THEN Result(-1, v.in_, v.heads)
                 ELSE CheckPairs(v.in_, v.heads)

\* Reader::isIndefiniteWellFormed, lines 482-535
isIndefiniteWellFormed(majorType, breakable, s, heads) ==
    CASE majorType \in {kBytes, kText} ->
            LET r == CheckChunks(majorType, s, heads)
            IN  Result(IF r.ret < 0 THEN -1 ELSE Accept(majorType),
                       r.in_, r.heads)
      [] majorType = kArray ->
            LET r == CheckItems(s, heads)
            IN  Result(IF r.ret < 0 THEN -1 ELSE Accept(majorType),
                       r.in_, r.heads)
      [] majorType = kMap ->
            LET r == CheckPairs(s, heads)
            IN  Result(IF r.ret < 0 THEN -1 ELSE Accept(majorType),
                       r.in_, r.heads)
      [] majorType = kSimpleOrFloat ->
            Result(BreakResult(breakable), s, heads)
      [] OTHER -> Result(-1, s, heads)

\* lines 429-479: the content that follows the head of a definite item
CheckContent(majorType, val, s, heads) ==
    CASE majorType \in {kBytes, kText} ->
            LET r == ReadPayload(val, s)
            IN  Result(IF r.ok THEN Accept(majorType) ELSE -1, r.in_, heads)
      [] majorType = kMap ->
            IF MapOverflows(val) THEN Result(-1, s, heads)
            ELSE LET r == CheckElements(majorType, U64Shl1(val), s, heads)
                 IN  Result(IF r.ret < 0 THEN -1 ELSE Accept(majorType),
                            r.in_, r.heads)
      [] majorType = kArray ->
            LET r == CheckElements(majorType, val, s, heads)
            IN  Result(IF r.ret < 0 THEN -1 ELSE Accept(majorType),
                       r.in_, r.heads)
      [] majorType = kTag ->
            LET r == isWellFormedB(FALSE, Pos("tagged", kTag), s, heads)
            IN  Result(IF r.ret < 0 THEN -1 ELSE Accept(majorType),
                       r.in_, r.heads)
      [] OTHER -> Result(Accept(majorType), s, heads)

\* int Reader::isWellFormed(bool breakable), lines 367-480; pos says where
\* the item stands (which call this is)
isWellFormedB(breakable, pos, s, heads) ==
    LET r0 == StreamRead(s)
        ib == r0.b
        majorType == ib \div 32
        ai == ib % 32
        arg == ReadArgument(ai, r0.in_)
        read == heads \cup
                  {[pos |-> pos, ib |-> ib,
                    arg |-> IF ai = 24 /\ arg.ok THEN arg.val[4] ELSE -1]}
    IN  IF ib < 0 THEN Result(-1, r0.in_, heads)
        ELSE CASE ai \in 28..30 -> Result(-1, r0.in_, read)
               [] ai = 31 ->
                    isIndefiniteWellFormed(majorType, breakable, r0.in_, read)
               [] ~arg.ok -> Result(-1, arg.in_, read)
               [] ai = 24 /\ IsBadSimple(majorType, arg.val) ->
                    Result(-1, arg.in_, read)
               [] OTHER -> CheckContent(majorType, arg.val, arg.in_, read)

-----------------------------------------------------------------------------
(* The well-formedness check step by step.  The calls of isWellFormed(bool) *)
(* that are in progress form a stack; a frame says where its call stands:  *)
(* at its entry, in one of the loops, waiting for the call it made, or     *)
(* returning a value to the frame below.  A step is the entry of a call    *)
(* (initial byte and argument), one round of a loop, or a return.          *)

Frame(pc, breakable, majorType, left, val) ==
    [pc |-> pc, breakable |-> breakable, majorType |-> majorType,
     left |-> left, val |-> val]

\* isWellFormed(breakable) has been called, line 367
CallFrame(breakable) == Frame("isWellFormed", breakable, 0, U64Zero, 0)

\* a call in the loop or at the call site `pc`, with `left` rounds to go
LoopFrame(pc, majorType, left) == Frame(pc, FALSE, majorType, left, 0)

\* a call that executes `return val`
ReturnFrame(val) == Frame("return", FALSE, 0, U64Zero, val)

\* a variant of LoopVerdict that goes on after a malformed item
LoopVerdict_IgnoresFailure(t) == IF t = -2 THEN "break" ELSE "again"

\* lines 488-493, 502-507, 513-518: what a loop of isIndefiniteWellFormed
\* does with the result t of isWellFormed(true)
LoopVerdict(t) ==
    IF t = -2 THEN "break" ELSE IF t = -1 THEN "fail" ELSE "again"

\* lines 482-535 up to the first call: isIndefiniteWellFormed is entered
EnterIndefinite(majorType, breakable) ==
    CASE majorType \in {kBytes, kText} ->
            LoopFrame("chunks", majorType, U64Zero)
      [] majorType = kArray -> LoopFrame("items", majorType, U64Zero)
      [] majorType = kMap -> LoopFrame("key", majorType, U64Zero)
      [] majorType = kSimpleOrFloat -> ReturnFrame(BreakResult(breakable))
      [] OTHER -> ReturnFrame(-1)

\* lines 429-479 up to the first round: the switch on the major type
EnterContent(majorType, val) ==
    CASE majorType \in {kBytes, kText} -> LoopFrame("payload", majorType, val)
      [] majorType = kMap ->
            IF MapOverflows(val) THEN ReturnFrame(-1)
            ELSE LoopFrame("elements", majorType, U64Shl1(val))
      [] majorType = kArray -> LoopFrame("elements", majorType, val)
      [] majorType = kTag -> LoopFrame("tagged", majorType, U64Zero)
      [] OTHER -> ReturnFrame(Accept(majorType))

\* lines 368-427: the initial byte and the argument
EnterCall(f, s) ==
    LET r0 == StreamRead(s)
        ib == r0.b
        majorType == ib \div 32
        ai == ib % 32
        arg == ReadArgument(ai, r0.in_)
    IN  IF ib < 0 THEN [frame |-> ReturnFrame(-1), in_ |-> r0.in_]
        ELSE CASE ai \in 28..30 ->
                    [frame |-> ReturnFrame(-1), in_ |-> r0.in_]
               [] ai = 31 ->
                    [frame |-> EnterIndefinite(majorType, f.breakable),
                     in_ |-> r0.in_]
               [] ~arg.ok -> [frame |-> ReturnFrame(-1), in_ |-> arg.in_]
               [] ai = 24 /\ IsBadSimple(majorType, arg.val) ->
                    [frame |-> ReturnFrame(-1), in_ |-> arg.in_]
               [] OTHER ->
                    [frame |-> EnterContent(majorType, arg.val),
                     in_ |-> arg.in_]

\* what the frame `parent` does when the call it made returns t
AfterChild(parent, t) ==
    LET mt == parent.majorType
        accept == ReturnFrame(Accept(mt))
        fail == ReturnFrame(-1)
    IN  CASE parent.pc = "elements" ->
                IF t < 0 THEN fail
                ELSE LoopFrame("elements", mt, U64Dec(parent.left))
          [] parent.pc = "tagged" -> IF t < 0 THEN fail ELSE accept
          [] parent.pc = "chunks" ->
                CASE LoopVerdict(t) = "break" -> accept
                  [] LoopVerdict(t) = "fail" -> fail
                  [] t # mt -> fail
                  [] OTHER -> parent
          [] parent.pc = "items" ->
                CASE LoopVerdict(t) = "break" -> accept
                  [] LoopVerdict(t) = "fail" -> fail
                  [] OTHER -> parent
          [] parent.pc = "key" ->
                CASE LoopVerdict(t) = "break" -> accept
                  [] LoopVerdict(t) = "fail" -> fail
                  [] OTHER -> LoopFrame("value", mt, U64Zero)
          [] parent.pc = "value" ->
                IF t < 0 THEN fail ELSE LoopFrame("key", mt, U64Zero)

-----------------------------------------------------------------------------
(* Writer, CBOR.cpp lines 541-730.  Each function is given by the bytes   *)
(* it prints to out_; out_.write(x) prints the low eight bits of x.        *)

\* a variant of ArgWidth that always takes the widest form
ArgWidth_Wide(u) == 8

\* lines 643-658: the number of argument bytes writeTypedInt chooses
ArgWidth(u) ==
    IF U64Lt(u, U64(24)) THEN 0
    ELSE IF U64Lt(u, U64(256)) THEN 1
    ELSE IF U64Lt(u, <<0, 0, 1, 0>>) THEN 2
    ELSE IF U64Lt(u, <<0, 1, 0, 0>>) THEN 4
    ELSE 8

\* a variant of ArgumentBytes that prints the low byte first
ArgumentBytes_LowFirst(u, w) == [k \in 1..w |-> U64Byte(u, 8 * (k - 1))]

\* lines 647-667: out_.write(u >> 8*(w-1)), ..., out_.write(u)
ArgumentBytes(u, w) == [k \in 1..w |-> U64Byte(u, 8 * (w - k))]

\* Writer::writeTypedInt, lines 642-669
writeTypedInt(mt, u) ==
    LET w == ArgWidth(u)
    IN  CASE w = 0 -> <<(mt + u[4]) % 256>>
          [] w = 1 -> <<(mt + 24) % 256>> \o ArgumentBytes(u, 1)
          [] w = 2 -> <<(mt + 25) % 256>> \o ArgumentBytes(u, 2)
          [] w = 4 -> <<(mt + 26) % 256>> \o ArgumentBytes(u, 4)
          [] OTHER -> <<(mt + 27) % 256>> \o ArgumentBytes(u, 8)

\* Writer::writeUnsignedInt, lines 631-633
writeUnsignedInt(u) == writeTypedInt(kUnsignedInt * 32, u)

\* a variant of SignExtend that shifts zeros in
SignExtend_Logical(i) == IF i[1] >= Limb \div 2 THEN U64(1) ELSE U64Zero

\* line 636: uint64_t u = i >> 63, the sign bit copied to every bit
SignExtend(i) == IF i[1] >= Limb \div 2 THEN U64Not(U64Zero) ELSE U64Zero

\* Writer::writeInt, lines 635-640; i is the bit pattern of the int64_t
writeInt(i) ==
    LET u0 == SignExtend(i)
        mt == ((u0[4] \div 32) % 2) * (kNegativeInt * 32)
        u == U64Xor(u0, i)
    IN  writeTypedInt(mt, u)

\* Writer::writeTag, lines 688-690
writeTag(v) == writeTypedInt(kTag * 32, v)

\* Writer::beginBytes, lines 696-698
beginBytes(length) == writeTypedInt(kBytes * 32, length)

\* Writer::beginText, lines 700-702
beginText(length) == writeTypedInt(kText * 32, length)

\* Writer::beginArray, lines 712-714
beginArray(length) == writeTypedInt(kArray * 32, length)

\* Writer::beginMap, lines 716-718
beginMap(length) == writeTypedInt(kMap * 32, length)

\* a variant of UsesInitialByte that takes every value below 32
UsesInitialByte_Below32(v) == v < 32

\* line 680: the simple values printed in the initial byte
UsesInitialByte(v) == v < 24

\* Writer::writeSimpleValue, lines 679-686
writeSimpleValue(v) ==
    IF UsesInitialByte(v) THEN <<kSimpleOrFloat * 32 + v>>
    ELSE <<kSimpleOrFloat * 32 + 24, v>>

\* a variant of FloatBytes that prints the two halves in the other order
FloatBytes_HalvesSwapped(val) ==
    <<U64Byte(val, 8), U64Byte(val, 0), U64Byte(val, 24), U64Byte(val, 16)>>

\* lines 580-583: the four bytes of val, val >> 24 first
FloatBytes(val) ==
    <<U64Byte(val, 24), U64Byte(val, 16), U64Byte(val, 8), U64Byte(val, 0)>>

\* Writer::writeFloat, lines 545-584; f is the float's bit pattern, which
\* memcpy copies to val
writeFloat(f) == <<kSimpleOrFloat * 32 + 26>> \o FloatBytes(f)

\* Writer::writeDouble, lines 586-629; d is the double's bit pattern
writeDouble(d) ==
    <<kSimpleOrFloat * 32 + 27>> \o [k \in 1..8 |-> U64Byte(d, 8 * (8 - k))]

-----------------------------------------------------------------------------
(* Bounds of the model *)
MaxExtra == 2       \* bytes of a Reader input after its first item head
DoneCap == 2        \* nDone stops counting here
MaxLen == 4         \* length of an input of the well-formedness check

\* Reader inputs: any first byte, followed by bytes that count up from a
\* base (so that every argument byte differs from its neighbours): any
\* prefix of the argument bytes the first byte announces, or all of them
\* and up to MaxExtra bytes of the next items; and the indefinite-length
\* Array 9F 01 02 FF
TailBases == {0, 28, 31, 32, 248}

Pattern(base, n) == [i \in 1..n |-> (base + i - 1) % 256]

ReaderInputs ==
    {<<>>, <<159, 1, 2, 255>>} \cup
    UNION {{<<ib>> \o Pattern(base, n) :
                base \in TailBases, n \in 0..(ArgBytes(ib % 32) + MaxExtra)} :
           ib \in Byte}

-----------------------------------------------------------------------------
(* The Reader as a state machine *)

\* the Reader's fields as the record the blocks work on
Rec ==
    [state_ |-> state_, initialByte_ |-> initialByte_, value_ |-> value_,
     syntaxError_ |-> syntaxError_, majorType_ |-> majorType_,
     addlInfo_ |-> addlInfo_, waitAvailable_ |-> waitAvailable_,
     in_ |-> in_, hdr |-> hdr, ret |-> "running"]

\* the state after construction: kStart, every field cleared
InitReader ==
    /\ state_ = "kStart"
    /\ initialByte_ = 0
    /\ value_ = U64Zero
    /\ syntaxError_ = "kNoError"
    /\ majorType_ = 0
    /\ addlInfo_ = 0
    /\ waitAvailable_ = 0

InitHistory ==
    /\ lastRet = "none"
    /\ lastFrom = "none"
    /\ lastFed = 0
    /\ nDone = 0
    /\ hdr = <<>>
    /\ payload = "none"
    /\ wfIn = <<>>
    /\ wfBreakable = FALSE
    /\ wfRet = -3
    /\ wfHeads = {}
    /\ out_ = <<>>
    /\ wrote = [op |-> "none", arg |-> <<0, 0, 0, 0>>]
    /\ stack = <<>>

Init ==
    /\ input \in ReaderInputs
    /\ pending = input
    /\ in_ = <<>>
    /\ InitReader
    /\ InitHistory

\* the transport delivers the next k bytes
Feed ==
    \E k \in 1..Len(pending) :
        /\ in_' = in_ \o SubSeq(pending, 1, k)
        /\ pending' = SubSeq(pending, k + 1, Len(pending))
        /\ UNCHANGED <<input, readerVars, callVars, payload, wfVars, wrVars,
                       stack>>

\* one call of Reader::readDataType
ReadDataType ==
    LET m == readDataType(Rec)
    IN  /\ state_' = m.state_
        /\ initialByte_' = m.initialByte_
        /\ value_' = m.value_
        /\ syntaxError_' = m.syntaxError_
        /\ majorType_' = m.majorType_
        /\ addlInfo_' = m.addlInfo_
        /\ waitAvailable_' = m.waitAvailable_
        /\ in_' = m.in_
        /\ hdr' = m.hdr
        /\ lastRet' = m.ret
        /\ lastFrom' = state_
        /\ lastFed' = Len(input) - Len(pending)
        /\ nDone' = IF m.ret # "kEOS" /\ nDone < DoneCap
                    THEN nDone + 1 ELSE nDone
        /\ payload' = IF m.ret \in {"kBytes", "kText"}
                          /\ ~isIndefiniteLength(m)
                       THEN "owed" ELSE "none"
        /\ UNCHANGED <<input, pending, wfVars, wrVars, stack>>

Next == Feed \/ ReadDataType

Spec == Init /\ [][Next]_vars

-----------------------------------------------------------------------------
(* The well-formedness check as a state machine.  A check is one step: it  *)
(* runs to its return on the bytes that are readable when it is called.    *)

\* the bytes the inputs of the check are made of: UnsignedInt 0, a head
\* with the reserved additional info 28, Bytes of length 1, indefinite
\* Bytes, indefinite Array, Map of 1, indefinite Map, Tag 1, a Tag head
\* with additional info 31, a one-byte simple value, Break
ChkBytes == {0, 28, 65, 95, 159, 161, 191, 193, 223, 248, 255}

RECURSIVE SeqsOf(_, _)
SeqsOf(S, n) ==
    IF n = 0 THEN {<<>>}
    ELSE LET shorter == SeqsOf(S, n - 1)
         IN  shorter \cup {<<b>> \o t : b \in S,
                             t \in {u \in shorter : Len(u) = n - 1}}

ChkInputs == SeqsOf(ChkBytes, MaxLen)

ChkInit ==
    /\ input \in ChkInputs
    /\ pending = <<>>
    /\ in_ = input
    /\ InitReader
    /\ InitHistory

\* int Reader::isWellFormed(bool breakable) called on the stream
CallIsWellFormedB(breakable) ==
    LET r == isWellFormedB(breakable, Top, in_, {})
    IN  /\ in_' = r.in_
        /\ wfIn' = in_
        /\ wfBreakable' = breakable
        /\ wfRet' = r.ret
        /\ wfHeads' = r.heads
        /\ UNCHANGED <<input, pending, readerVars, callVars, payload, wrVars,
                     stack>>

\* bool Reader::isWellFormed(), lines 359-365: isWellFormed(false)
IsWellFormed == CallIsWellFormedB(FALSE)

\* what bool Reader::isWellFormed() returned, line 360
retval == wfRet >= 0

\* a check that may meet a Break, as isIndefiniteWellFormed starts one
IsWellFormedBreakable == CallIsWellFormedB(TRUE)

ChkNext == IsWellFormed \/ IsWellFormedBreakable

ChkSpec == ChkInit /\ [][ChkNext]_vars

-----------------------------------------------------------------------------
(* Map heads with large arguments, for the overflow guard.  An input is a  *)
(* definite-length Map head of any width followed by up to MaxKids items   *)
(* UnsignedInt 0.                                                          *)
MaxKids == 5

\* eight argument bytes: the top byte on both sides of 2^63, the low byte
\* small or full, the bytes between all 00 or all FF in two groups
MapArgs ==
    {<<b1, x, x, x, y, y, y, b8>> :
        b1 \in {0, 127, 128, 255}, x \in {0, 255}, y \in {0, 255},
        b8 \in {0, 1, 2, 255}}

\* the head of a Map whose argument is the last w bytes of arg
MapHead(w, arg) ==
    <<kMap * 32 + (CASE w = 1 -> 24 [] w = 2 -> 25 [] w = 4 -> 26
                     [] w = 8 -> 27)>>
      \o SubSeq(arg, 9 - w, 8)

MapInputs ==
    {h \o [i \in 1..k |-> 0] :
        h \in {<<kMap * 32 + n>> : n \in {0, 1, 2, 3, 23}}
                \cup {MapHead(w, arg) : w \in {1, 2, 4, 8}, arg \in MapArgs},
        k \in 0..MaxKids}

MapInit ==
    /\ input \in MapInputs
    /\ pending = <<>>
    /\ in_ = input
    /\ InitReader
    /\ InitHistory

MapSpec == MapInit /\ [][ChkNext]_vars

-----------------------------------------------------------------------------
(* A caller that decodes a stream which holds all of its bytes: it calls   *)
(* readDataType, and after the head of a definite-length Bytes or Text     *)
(* item it reads the payload with readBytes(getLength()).                  *)

ReadDataTypeNext == payload # "owed" /\ ReadDataType

ReadPayloadNext ==
    /\ payload = "owed"
    /\ LET r == readBytes(in_, getLength(Rec))
       IN  /\ in_' = r.in_
           /\ payload' = IF U64(r.n) = getLength(Rec) THEN "read"
                         ELSE "short"
    /\ UNCHANGED <<input, pending, readerVars, callVars, wfVars, wrVars,
                 stack>>

AgreeInit == ChkInit

AgreeNext == ReadDataTypeNext \/ ReadPayloadNext

AgreeSpec == AgreeInit /\ [][AgreeNext]_vars

-----------------------------------------------------------------------------
(* A Writer and a Reader on the two ends of one stream: what the Writer    *)
(* prints to out_ is what the transport delivers to the Reader's in_.  The *)
(* Writer prints one item.                                                 *)

\* the 64-bit values written: both sides of every width boundary, one
\* million, a value whose eight bytes all differ, and both sides of 2^63
U64Samples ==
    {U64Zero, U64(1), U64(23), U64(24), U64(255), U64(256), U64(1000000),
     <<0, 0, Limb - 1, Limb - 1>>, <<0, 0, 1, 0>> , U64(Limb - 1),
     <<0, 1, 0, 0>>, <<258, 772, 1286, 1800>>,
     <<Limb \div 2 - 1, Limb - 1, Limb - 1, Limb - 1>>,
     <<Limb \div 2, 0, 0, 0>>, U64Not(U64Zero)}

\* int64_t values as bit patterns: the samples and their complements, with
\* 0, -1, INT64_MAX and INT64_MIN among them
IntSamples == U64Samples \cup {U64Not(u) : u \in U64Samples}

\* unsigned int lengths (32 bits at most)
LengthSamples == {u \in U64Samples : u[1] = 0 /\ u[2] = 0}

\* float patterns: zeros, 1.0, subnormals, the largest finite value,
\* infinities, NaNs, -pi, and a value whose four bytes all differ
FloatSamples ==
    {<<0, 0, hi, lo>> : hi \in {0, 128, 32768}, lo \in {0, 1, Limb - 1}}
      \cup {<<0, 0, 16256, 0>>, <<0, 0, 127, Limb - 1>>,
            <<0, 0, 32639, Limb - 1>>, <<0, 0, 32640, 0>>,
            <<0, 0, 65408, 0>>, <<0, 0, 32704, 0>>, <<0, 0, 32640, 1>>,
            <<0, 0, 49225, 4059>>, <<0, 0, 258, 772>>}

\* double patterns: the 64-bit samples (among them 0, -0.0, NaN) and 1.0
DoubleSamples == U64Samples \cup {<<16368, 0, 0, 0>>}

WrInit ==
    /\ input = <<>>
    /\ pending = <<>>
    /\ in_ = <<>>
    /\ InitReader
    /\ InitHistory

\* one Writer call that prints `bytes`
Write(op, arg, bytes) ==
    /\ wrote.op = "none"
    /\ out_' = out_ \o bytes
    /\ wrote' = [op |-> op, arg |-> arg]
    /\ input' = input \o bytes
    /\ pending' = pending \o bytes
    /\ UNCHANGED <<in_, readerVars, callVars, payload, wfVars, stack>>

WriteUnsignedInt ==
    \E u \in U64Samples : Write("writeUnsignedInt", u, writeUnsignedInt(u))

WriteInt == \E i \in IntSamples : Write("writeInt", i, writeInt(i))

WriteTag == \E v \in U64Samples : Write("writeTag", v, writeTag(v))

BeginBytes ==
    \E length \in LengthSamples :
        Write("beginBytes", length, beginBytes(length))

BeginText ==
    \E length \in LengthSamples : Write("beginText", length, beginText(length))

BeginArray ==
    \E length \in LengthSamples :
        Write("beginArray", length, beginArray(length))

BeginMap ==
    \E length \in LengthSamples : Write("beginMap", length, beginMap(length))

WriteFloat == \E f \in FloatSamples : Write("writeFloat", f, writeFloat(f))

WriteDouble ==
    \E d \in DoubleSamples : Write("writeDouble", d, writeDouble(d))

WriteSimpleValue ==
    \E v \in Byte : Write("writeSimpleValue", U64(v), writeSimpleValue(v))

WrNext ==
    \/ WriteUnsignedInt
    \/ WriteInt
    \/ WriteTag
    \/ BeginBytes
    \/ BeginText
    \/ BeginArray
    \/ BeginMap
    \/ WriteFloat
    \/ WriteDouble
    \/ WriteSimpleValue
    \/ Feed
    \/ ReadDataType

WrSpec == WrInit /\ [][WrNext]_vars

-----------------------------------------------------------------------------
(* Half-precision items: F9 and two argument bytes, every high byte (sign, *)
(* exponent, top of the fraction) with three low bytes                     *)
HalfInputs == {<<kSimpleOrFloat * 32 + 25, hi, lo>> :
                  hi \in Byte, lo \in {0, 1, 255}}

HalfInit ==
    /\ input \in HalfInputs
    /\ pending = input
    /\ in_ = <<>>
    /\ InitReader
    /\ InitHistory

HalfSpec == HalfInit /\ [][Next]_vars

-----------------------------------------------------------------------------
(* Truncated input: the stream holds a proper prefix of an item that the   *)
(* check accepts to its last byte, and no byte follows.                    *)

\* items with longer heads: UnsignedInt with a 2-, 4- and 8-byte argument,
\* Bytes with a 2-byte length of 1, an Array with a 1-byte count of 2
WideHeadItems ==
    {<<25, 1, 0>>, <<26, 1, 0, 0, 0>>, <<27, 1, 0, 0, 0, 0, 0, 0, 0>>,
     <<89, 0, 1, 0>>, <<152, 2, 0, 0>>}

\* the inputs that are one item the check accepts, with nothing after it
WholeItems ==
    {s \in ChkInputs \cup WideHeadItems :
        LET r == isWellFormedB(FALSE, Top, s, {})
        IN  r.ret >= 0 /\ r.in_ = <<>>}

TruncInit ==
    /\ input \in WholeItems
    /\ \E k \in 0..(Len(input) - 1) : in_ = SubSeq(input, 1, k)
    /\ pending = <<>>
    /\ InitReader
    /\ InitHistory

TruncNext == IsWellFormed

TruncSpec == TruncInit /\ [][TruncNext]_vars

-----------------------------------------------------------------------------
(* The step-by-step check as a state machine, on a finite stream: once its *)
(* bytes are read, read() returns -1 for ever.                             *)

\* the bytes of the inputs: empty Bytes, indefinite Bytes, indefinite
\* Array, indefinite Map, Tag 1, Break
StepBytes == {64, 95, 159, 191, 193, 255}

\* eight argument bytes for counts of 2^64 - 1, 2^63, 2^32 and 2^32 - 1,
\* and for a count of 2 that the bytes after the head can meet
HugeArgs ==
    {<<255, 255, 255, 255, 255, 255, 255, 255>>,
     <<128, 0, 0, 0, 0, 0, 0, 0>>, <<0, 0, 0, 1, 0, 0, 0, 0>>,
     <<0, 0, 0, 0, 255, 255, 255, 255>>, <<0, 0, 0, 0, 0, 0, 0, 2>>}

\* Bytes, Array and Map heads that announce such a count, followed by up to
\* MaxKids bytes 00
HugeInputs ==
    {<<mt * 32 + 27>> \o arg \o [i \in 1..k |-> 0] :
        mt \in {kBytes, kArray, kMap}, arg \in HugeArgs, k \in 0..MaxKids}

StepInputs == SeqsOf(StepBytes, MaxLen) \cup HugeInputs

\* no stream yet
StepInit ==
    /\ input = <<>>
    /\ pending = <<>>
    /\ in_ = <<>>
    /\ InitReader
    /\ InitHistory

StepKeeps == UNCHANGED <<pending, readerVars, callVars, payload, wrVars>>

\* a Reader is given a stream that holds one of the inputs, and bool
\* Reader::isWellFormed() is called: isWellFormed(false), line 360
StartCheck ==
    /\ stack = <<>>
    /\ wfRet = -3
    /\ \E s \in StepInputs :
          /\ input' = s
          /\ in_' = s
          /\ wfIn' = s
    /\ stack' = <<CallFrame(FALSE)>>
    /\ wfBreakable' = FALSE
    /\ UNCHANGED <<wfRet, wfHeads>>
    /\ StepKeeps

\* the innermost call reads its initial byte and argument
Enter ==
    /\ stack # <<>>
    /\ Head(stack).pc = "isWellFormed"
    /\ LET r == EnterCall(Head(stack), in_)
       IN  /\ in_' = r.in_
           /\ stack' = <<r.frame>> \o Tail(stack)
    /\ UNCHANGED <<input, wfVars>>
    /\ StepKeeps

\* lines 433-445: one round of the payload loop, or its end
PayloadStep ==
    /\ stack # <<>>
    /\ Head(stack).pc = "payload"
    /\ LET f == Head(stack)
           r == StreamRead(in_)
       IN  IF f.left = U64Zero
           THEN /\ stack' = <<ReturnFrame(Accept(f.majorType))>> \o Tail(stack)
                /\ in_' = in_
           ELSE /\ in_' = r.in_
                /\ stack' =
                     <<IF r.b < 0 THEN ReturnFrame(-1)
                       ELSE LoopFrame("payload", f.majorType, U64Dec(f.left))>>
                       \o Tail(stack)
    /\ UNCHANGED <<input, wfVars>>
    /\ StepKeeps

\* lines 455-467: one round of the element loop calls isWellFormed(false);
\* after the last round the call returns its major type
ElementsStep ==
    /\ stack # <<>>
    /\ Head(stack).pc = "elements"
    /\ stack' = IF Head(stack).left = U64Zero
                THEN <<ReturnFrame(Accept(Head(stack).majorType))>>
                       \o Tail(stack)
                ELSE <<CallFrame(FALSE)>> \o stack
    /\ UNCHANGED <<input, in_, wfVars>>
    /\ StepKeeps

\* lines 470, 487, 501, 512, 519: the call of isWellFormed for a tagged
\* item, a chunk, an item, a key (all three breakable) or a value
CallChild ==
    /\ stack # <<>>
    /\ Head(stack).pc \in {"tagged", "chunks", "items", "key", "value"}
    /\ stack' = <<CallFrame(Head(stack).pc \in {"chunks", "items", "key"})>>
                  \o stack
    /\ UNCHANGED <<input, in_, wfVars>>
    /\ StepKeeps

\* a call returns to the call that made it
ReturnStep ==
    /\ Len(stack) >= 2
    /\ Head(stack).pc = "return"
    /\ stack' = <<AfterChild(stack[2], Head(stack).val)>> \o Tail(Tail(stack))
    /\ UNCHANGED <<input, in_, wfVars>>
    /\ StepKeeps

\* the outermost call returns
Finish ==
    /\ Len(stack) = 1
    /\ Head(stack).pc = "return"
    /\ stack' = <<>>
    /\ wfRet' = Head(stack).val
    /\ UNCHANGED <<input, in_, wfIn, wfBreakable, wfHeads>>
    /\ StepKeeps

StepNext ==
    \/ StartCheck
    \/ Enter
    \/ PayloadStep
    \/ ElementsStep
    \/ CallChild
    \/ ReturnStep
    \/ Finish

\* the check runs on: a step that can be taken is taken
StepSpec == StepInit /\ [][StepNext]_vars /\ WF_vars(StepNext)

-----------------------------------------------------------------------------
(* Claims about Reader::readDataType, checked under Spec *)

\* the length of an item head: the initial byte and the 0, 1, 2, 4 or 8
\* argument bytes that additional info 24, 25, 26, 27 announce
HeadLen(ib) ==
    LET addl == ib % 32
    IN  1 + (IF addl = 24 THEN 1 ELSE IF addl = 25 THEN 2
             ELSE IF addl = 26 THEN 4 ELSE IF addl = 27 THEN 8 ELSE 0)

\* the last call worked on the first item of the input
OnFirstItem ==
    \/ lastRet = "kEOS" /\ nDone = 0
    \/ lastRet \notin {"none", "kEOS"} /\ nDone = 1

\* what a new Reader returns when the whole input is readable at once
OneShot == readDataType(Fresh(input))

\* C1: however the bytes of the first item head are delivered, a call made
\* while the head is incomplete returns kEOS, and the first call made once
\* the head is complete returns the type, argument and error kind that a
\* Reader returns which had all the bytes at its first call.
C1_ShortReadResumption ==
    OnFirstItem =>
        IF input = <<>> \/ lastFed < HeadLen(input[1])
        THEN lastRet = "kEOS"
        ELSE /\ lastRet # "kEOS"
             /\ lastRet = OneShot.ret
             /\ value_ = OneShot.value_
             /\ majorType_ = OneShot.majorType_
             /\ addlInfo_ = OneShot.addlInfo_
             /\ syntaxError_ = OneShot.syntaxError_
             /\ state_ = OneShot.state_
             /\ hdr = SubSeq(input, 1, HeadLen(input[1]))

\* C1 witness: an 8-byte argument that arrived in pieces; the call that
\* completed the head resumed from kWaitAvailable
C1_Witness ==
    /\ OnFirstItem
    /\ lastFrom = "kWaitAvailable"
    /\ lastRet = "kUnsignedInt"
    /\ Len(hdr) = 9
    /\ value_ = <<248 * 256 + 249, 250 * 256 + 251, 252 * 256 + 253,
                  254 * 256 + 255>>

\* C2 (as claimed): after readDataType returns kSyntaxError the state is
\* kStart again, so that the next call reads a new initial byte.
C2_SyntaxErrorResetsToStart ==
    lastRet = "kSyntaxError" => state_ = "kStart"

\* the six fields of the decode record the claim C3 lists
record == <<state_, value_, majorType_, addlInfo_, waitAvailable_,
            syntaxError_>>

\* C3 (as claimed): a call that reads nothing returns kEOS and leaves the
\* decode record as it was.
C3_NoBytesLeavesRecord ==
    [][(ReadDataType /\ in_' = in_) =>
          (lastRet' = "kEOS" /\ record' = record)]_vars

\* C3 (amended): a call in kWaitAvailable with too few bytes available
\* returns kEOS and leaves the record and the stream as they were; a call
\* in kStart that gets no byte returns kEOS and stays in kStart, and it
\* does clear the record: value, major type, additional info and pending
\* count become 0 and the error slot kNoError.
C3_NoBytesAmended ==
    [][ReadDataType =>
          /\ (state_ = "kWaitAvailable" /\ Len(in_) < waitAvailable_) =>
                (lastRet' = "kEOS" /\ record' = record /\ in_' = in_)
          /\ (state_ = "kStart" /\ in_ = <<>>) =>
                /\ lastRet' = "kEOS"
                /\ state_' = "kStart"
                /\ value_' = U64Zero
                /\ majorType_' = 0
                /\ addlInfo_' = 0
                /\ waitAvailable_' = 0
                /\ syntaxError_' = "kNoError"
                /\ in_' = in_]_vars

\* C3 witness: the first item was a Map head, the next call found no byte
\* and the major type it had recorded is gone
C3_Witness ==
    /\ input # <<>> /\ input[1] \div 32 = kMap
    /\ nDone = 1
    /\ lastFrom = "kStart"
    /\ lastRet = "kEOS"
    /\ majorType_ = 0

\* the three malformed heads, read off the bytes consumed for the item
HeadUnknownAdditionalInfo == hdr # <<>> /\ hdr[1] % 32 \in 28..30

HeadNotAnIndefiniteType ==
    hdr # <<>> /\ hdr[1] % 32 = 31 /\ hdr[1] \div 32 \in {0, 1, 6}

HeadBadSimpleValue ==
    Len(hdr) >= 2 /\ hdr[1] \div 32 = 7 /\ hdr[1] % 32 = 24 /\ hdr[2] < 32

\* C4: readDataType returns kSyntaxError exactly for those three heads and
\* records the matching kind; after any other return the kind is kNoError.
C4_SyntaxErrorExactly ==
    lastRet # "none" =>
        /\ lastRet = "kSyntaxError" <=>
              (HeadUnknownAdditionalInfo \/ HeadNotAnIndefiniteType
                 \/ HeadBadSimpleValue)
        /\ HeadUnknownAdditionalInfo =>
              syntaxError_ = "kUnknownAdditionalInfo"
        /\ HeadNotAnIndefiniteType => syntaxError_ = "kNotAnIndefiniteType"
        /\ HeadBadSimpleValue => syntaxError_ = "kBadSimpleValue"
        /\ lastRet # "kSyntaxError" => syntaxError_ = "kNoError"

\* C4 witness: a tag head with additional info 31 was refused
C4_Witness ==
    /\ lastRet = "kSyntaxError"
    /\ hdr = <<6 * 32 + 31>>
    /\ syntaxError_ = "kNotAnIndefiniteType"

-----------------------------------------------------------------------------
(* Claims about the well-formedness check, checked under ChkSpec *)

Major(ib) == ib \div 32

Addl(ib) == ib % 32

Checked == wfRet # -3

\* C5 (as claimed): in an accepted input every chunk of an indefinite
\* Bytes or Text item is a definite-length item of the same major type (or
\* the Break that ends the item).
C5_ChunksAreDefinite ==
    (Checked /\ wfRet >= 0) =>
        \A h \in wfHeads :
            h.pos.at = "chunk" =>
                \/ h.ib = 255
                \/ Major(h.ib) = h.pos.of /\ Addl(h.ib) # 31

\* a Break was read where none may stand: at the top of a check that is
\* not breakable, as an element of a definite Array or Map, after a Tag, or
\* as the value of a pair of an indefinite Map
MisplacedBreak ==
    \E h \in wfHeads :
        /\ h.ib = 255
        /\ \/ h.pos.at \in {"element", "tagged", "value"}
           \/ h.pos.at = "top" /\ ~wfBreakable

\* C6: a Break in one of those places makes the check return -1; in an
\* accepted input every Break stands where a chunk, an item or a key of an
\* indefinite-length item may stand, and the check itself did not start on
\* one.
C6_BreakOnlyTerminates ==
    Checked =>
        /\ MisplacedBreak => wfRet = -1
        /\ wfRet >= 0 =>
              \A h \in wfHeads :
                  h.ib = 255 =>
                      /\ h.pos.at \in {"chunk", "item", "key"}
                      /\ h.pos.of \in {kBytes, kText, kArray, kMap}

\* C6 witness: BF 00 FF, a Break as the value of the first pair
C6_Witness ==
    /\ wfIn = <<191, 0, 255>>
    /\ ~wfBreakable
    /\ [pos |-> Pos("value", kMap), ib |-> 255, arg |-> -1] \in wfHeads
    /\ wfRet = -1

\* C7: the result is -2, -1 or 0..7; -2 only from a breakable check whose
\* first byte is FF; a result >= 0 is the major type of the first byte;
\* bool isWellFormed(), which is not breakable, never sees -2.
C7_ResultRange ==
    Checked =>
        /\ wfRet \in -2..7
        /\ wfRet = -2 => (wfBreakable /\ wfIn # <<>> /\ wfIn[1] = 255)
        /\ wfRet >= 0 => (wfIn # <<>> /\ wfRet = Major(wfIn[1]))
        /\ ~wfBreakable => (wfRet # -2 /\ (retval <=> wfRet \in 0..7))

\* C7 witness: an accepted indefinite Map with one pair
C7_Witness ==
    /\ wfIn = <<191, 0, 0, 255>>
    /\ wfRet = kMap
    /\ in_ = <<>>

\* a head no well-formed item has
Malformed(h) ==
    \/ Addl(h.ib) \in 28..30
    \/ Addl(h.ib) = 31 /\ Major(h.ib) \in {0, 1, 6}
    \/ Major(h.ib) = 7 /\ Addl(h.ib) = 24 /\ h.arg \in 0..31

\* C8: a malformed head at any depth makes the check return -1.
C8_MalformedIsMinusOne ==
    Checked => ((\E h \in wfHeads : Malformed(h)) => wfRet = -1)

\* C8 witness: 9F 9F F8 00, a bad simple value two levels down
C8_Witness ==
    /\ wfIn = <<159, 159, 248, 0>>
    /\ [pos |-> Pos("item", kArray), ib |-> 248, arg |-> 0] \in wfHeads
    /\ ~wfBreakable
    /\ wfRet = -1

-----------------------------------------------------------------------------
(* The Map overflow guard, checked under MapSpec *)

\* a complete definite-length Map head followed only by items UnsignedInt 0
IsMapInput(s) ==
    /\ s # <<>>
    /\ Major(s[1]) = 5
    /\ Addl(s[1]) \in 0..27
    /\ Len(s) >= HeadLen(s[1])
    /\ \A i \in (HeadLen(s[1]) + 1)..Len(s) : s[i] = 0

\* the one-byte items that follow the head
Kids(s) == Len(s) - HeadLen(s[1])

\* the argument n is 2^63 or more: eight argument bytes, top bit set
AtLeast2to63(s) == Addl(s[1]) = 27 /\ s[2] >= 128

\* n is below 256, and then its value
BelowByte(s) == \A i \in 2..(HeadLen(s[1]) - 1) : s[i] = 0

SmallN(s) == IF Addl(s[1]) < 24 THEN Addl(s[1]) ELSE s[HeadLen(s[1])]

\* C9: a Map head with n >= 2^63 is refused with -1 and nothing after the
\* head is read; with n < 2^63 the guard lets the head pass and the check
\* goes on to read 2n items: it returns 5 having read exactly 2n of the
\* items that follow when there are that many, and otherwise reads all
\* there are before it fails.
C9_MapOverflowGuard ==
    (Checked /\ IsMapInput(wfIn)) =>
        IF AtLeast2to63(wfIn)
        THEN wfRet = -1 /\ Len(in_) = Kids(wfIn)
        ELSE IF BelowByte(wfIn) /\ 2 * SmallN(wfIn) <= Kids(wfIn)
        THEN wfRet = kMap /\ Len(in_) = Kids(wfIn) - 2 * SmallN(wfIn)
        ELSE wfRet = -1 /\ in_ = <<>>

\* C9 witness: n = 2^63 exactly, whose double wraps to 0; the three items
\* after the head are still in the stream
C9_Witness ==
    /\ wfIn = <<187, 128, 0, 0, 0, 0, 0, 0, 0, 0, 0, 0>>
    /\ wfRet = -1
    /\ in_ = <<0, 0, 0>>

-----------------------------------------------------------------------------
(* Checker and Reader on the same bytes, checked under AgreeSpec *)

\* the check accepts the input and reads all of it
Accepted ==
    LET r == isWellFormedB(FALSE, Top, input, {})
    IN  r.ret >= 0 /\ r.in_ = <<>>

\* C10: on an input the check accepts to its last byte, a Reader that has
\* all the bytes (and whose caller reads each definite Bytes or Text
\* payload) never returns kSyntaxError, finds every payload complete,
\* returns kEOS only when every byte is consumed and it is in kStart, and is
\* in kStart whenever every byte is consumed.
C10_CheckerReaderAgree ==
    Accepted =>
        /\ lastRet # "kSyntaxError"
        /\ payload # "short"
        /\ lastRet = "kEOS" => (in_ = <<>> /\ state_ = "kStart")
        /\ (in_ = <<>> /\ payload # "owed" /\ lastRet # "none") =>
              state_ = "kStart"

\* C10 witness: 5F 41 00 FF (indefinite Bytes with one chunk of one byte)
\* decoded to its end
C10_Witness ==
    /\ input = <<95, 65, 0, 255>>
    /\ Accepted
    /\ lastRet = "kBreak"
    /\ in_ = <<>>
    /\ state_ = "kStart"

-----------------------------------------------------------------------------
(* Writer output read back by the Reader, checked under WrSpec *)

\* the Reader has returned the type of the item the Writer printed
Decoded == wrote.op # "none" /\ lastRet \notin {"none", "kEOS"}

\* the Reader has read the output to its end: it found exactly one item
ReadToEnd ==
    (wrote.op # "none" /\ pending = <<>> /\ in_ = <<>>
       /\ lastRet = "kEOS" /\ lastFrom = "kStart" /\ lastFed = Len(out_))
      => nDone = 1

\* the int64_t with bit pattern i is negative
IsNegative(i) == i[1] >= Limb \div 2

\* C11: writeInt(i) is read back as kUnsignedInt with argument i when
\* i >= 0 and as kNegativeInt with argument -1 - i when i < 0 (on 64 bits
\* the bits of i flipped); getInt() then gives i back.  The output holds
\* that one item and nothing else.
C11_SignedRoundTrip ==
    wrote.op = "writeInt" =>
        /\ ReadToEnd
        /\ Decoded =>
              IF IsNegative(wrote.arg)
              THEN /\ lastRet = "kNegativeInt"
                   /\ value_ = [k \in 1..4 |-> Limb - 1 - wrote.arg[k]]
                   /\ getInt(Rec) = wrote.arg
              ELSE /\ lastRet = "kUnsignedInt"
                   /\ value_ = wrote.arg

\* C11 witness: INT64_MIN read back as kNegativeInt with argument 2^63 - 1
C11_Witness ==
    /\ wrote = [op |-> "writeInt", arg |-> <<Limb \div 2, 0, 0, 0>>]
    /\ lastRet = "kNegativeInt"
    /\ value_ = <<Limb \div 2 - 1, Limb - 1, Limb - 1, Limb - 1>>
    /\ out_ = <<59, 127, 255, 255, 255, 255, 255, 255, 255>>

\* the type the Reader is to return for the head a Writer call prints
HeadType(op) ==
    CASE op = "writeUnsignedInt" -> "kUnsignedInt"
      [] op = "writeTag" -> "kTag"
      [] op = "beginBytes" -> "kBytes"
      [] op = "beginText" -> "kText"
      [] op = "beginArray" -> "kArray"
      [] op = "beginMap" -> "kMap"

HeadOps ==
    {"writeUnsignedInt", "writeTag", "beginBytes", "beginText", "beginArray",
     "beginMap"}

\* the value of the bytes bs read as one number, first byte most
\* significant, as four 16-bit limbs
BigEndian(bs) ==
    LET n == Len(bs)
        at(i) == IF i >= 1 THEN bs[i] ELSE 0
    IN  [k \in 1..4 |-> 256 * at(n - 2 * (4 - k) - 1) + at(n - 2 * (4 - k))]

\* C12: the head printed by writeUnsignedInt(u), writeTag(u), beginBytes(u),
\* beginText(u), beginArray(u) or beginMap(u) is read back as the matching
\* type with argument u and not as an indefinite-length item; the argument
\* bytes on the wire are u with the most significant byte first.
C12_HeadRoundTrip ==
    wrote.op \in HeadOps =>
        /\ ReadToEnd
        /\ Len(out_) > 1 => BigEndian(Tail(out_)) = wrote.arg
        /\ Decoded =>
              /\ lastRet = HeadType(wrote.op)
              /\ value_ = wrote.arg
              /\ getLength(Rec) = wrote.arg
              /\ ~isIndefiniteLength(Rec)
              /\ syntaxError_ = "kNoError"

\* C12 witness: a tag whose eight argument bytes all differ, read back
C12_Witness ==
    /\ wrote = [op |-> "writeTag", arg |-> <<258, 772, 1286, 1800>>]
    /\ out_ = <<219, 1, 2, 3, 4, 5, 6, 7, 8>>
    /\ lastRet = "kTag"
    /\ value_ = <<258, 772, 1286, 1800>>

\* u < 2^(8w), for w = 1, 2 or 4
FitsIn(u, w) ==
    /\ u[1] = 0 /\ u[2] = 0
    /\ w < 4 => u[3] = 0
    /\ w < 2 => u[4] < 256

\* the major-type prefix a Writer call passes to writeTypedInt, and the
\* 64-bit value it passes
TypedPrefix ==
    CASE wrote.op = "writeUnsignedInt" -> 0
      [] wrote.op = "writeInt" -> IF IsNegative(wrote.arg) THEN 32 ELSE 0
      [] wrote.op = "beginBytes" -> 64
      [] wrote.op = "beginText" -> 96
      [] wrote.op = "beginArray" -> 128
      [] wrote.op = "beginMap" -> 160
      [] wrote.op = "writeTag" -> 192

TypedValue ==
    IF wrote.op = "writeInt" /\ IsNegative(wrote.arg)
    THEN [k \in 1..4 |-> Limb - 1 - wrote.arg[k]]
    ELSE wrote.arg

\* C13: writeTypedInt(mt, u) prints one head in the shortest form that
\* holds u: 1 byte mt + u when u < 24, else mt + 24 and 1 byte when u < 2^8,
\* mt + 25 and 2 bytes when u < 2^16, mt + 26 and 4 bytes when u < 2^32,
\* else mt + 27 and 8 bytes; 1000000 is printed as 1A 00 0F 42 40.
C13_ShortestWidth ==
    wrote.op \in HeadOps \cup {"writeInt"} =>
        LET u == TypedValue
            w == Len(out_) - 1
        IN  /\ w \in {0, 1, 2, 4, 8}
            /\ w = 0 <=> (FitsIn(u, 1) /\ u[4] < 24)
            /\ w = 1 <=> (FitsIn(u, 1) /\ u[4] >= 24)
            /\ w = 2 <=> (FitsIn(u, 2) /\ ~FitsIn(u, 1))
            /\ w = 4 <=> (FitsIn(u, 4) /\ ~FitsIn(u, 2))
            /\ out_[1] = TypedPrefix +
                 (CASE w = 0 -> u[4] [] w = 1 -> 24 [] w = 2 -> 25
                    [] w = 4 -> 26 [] w = 8 -> 27)
            /\ (wrote.op = "writeUnsignedInt" /\ u = <<0, 0, 15, 16960>>) =>
                  out_ = <<26, 0, 15, 66, 64>>

\* C13 witness: one million was written
C13_Witness ==
    /\ wrote = [op |-> "writeUnsignedInt", arg |-> <<0, 0, 15, 16960>>]
    /\ out_ = <<26, 0, 15, 66, 64>>

-----------------------------------------------------------------------------
(* Claims about the decoded item, checked under Spec *)

\* readDataType has returned the type of an item
Completed == lastRet \notin {"none", "kEOS", "kSyntaxError"}

\* the argument the bytes of the head carry
HeadArgument ==
    IF Len(hdr) > 1 THEN BigEndian(Tail(hdr))
    ELSE <<0, 0, 0, hdr[1] % 32>>

\* C14 (as claimed): a NegativeInt head with any argument u in 0..2^64-1 is
\* returned as kNegativeInt with no syntax error and value_ = u, and
\* getInt() is the integer -1 - u: a negative int64_t whose flipped bits
\* are u.
C14_NegativeIntFullRange ==
    lastRet = "kNegativeInt" =>
        /\ syntaxError_ = "kNoError"
        /\ value_ = HeadArgument
        /\ IsNegative(getInt(Rec))
        /\ [k \in 1..4 |-> Limb - 1 - getInt(Rec)[k]] = HeadArgument

\* the type the claim C15 gives for an initial byte and its argument
MappedType(ib, arg) ==
    LET major == ib \div 32
        addl == ib % 32
    IN  CASE major = 0 -> "kUnsignedInt"
          [] major = 1 -> "kNegativeInt"
          [] major = 2 -> "kBytes"
          [] major = 3 -> "kText"
          [] major = 4 -> "kArray"
          [] major = 5 -> "kMap"
          [] major = 6 -> "kTag"
          [] major = 7 /\ addl \in {20, 21} -> "kBoolean"
          [] major = 7 /\ addl = 22 -> "kNull"
          [] major = 7 /\ addl = 23 -> "kUndefined"
          [] major = 7 /\ addl \in 0..19 -> "kSimpleValue"
          [] major = 7 /\ addl = 24 /\ arg[4] >= 32 -> "kSimpleValue"
          [] major = 7 /\ addl \in {25, 26} -> "kFloat"
          [] major = 7 /\ addl = 27 -> "kDouble"
          [] major = 7 /\ addl = 31 -> "kBreak"
          [] OTHER -> "no type"

\* C15: the type returned for a completed head is the one the table gives
\* for its major type, additional info and argument; isIndefiniteLength()
\* is true exactly for major types 2..5 with additional info 31, and the
\* argument is then 0.
C15_DetermineTypeMapping ==
    Completed =>
        /\ lastRet = MappedType(hdr[1], HeadArgument)
        /\ majorType_ = hdr[1] \div 32
        /\ addlInfo_ = hdr[1] % 32
        /\ isIndefiniteLength(Rec) <=>
              (hdr[1] \div 32 \in {2, 3, 4, 5} /\ hdr[1] % 32 = 31)
        /\ isIndefiniteLength(Rec) => value_ = U64Zero

\* C15 witness: F8 20, a one-byte simple value of 32
C15_Witness ==
    /\ lastRet = "kSimpleValue"
    /\ hdr = <<248, 32>>
    /\ ~isIndefiniteLength(Rec)

-----------------------------------------------------------------------------
(* Floating-point items *)

\* the float pattern b is a NaN: exponent all ones, fraction not 0
IsNaN32(b) ==
    /\ (b[3] % (Limb \div 2)) \div 128 = 255
    /\ b[3] % 128 # 0 \/ b[4] # 0

\* C16 (under WrSpec): writeFloat prints FA and the four bytes of the
\* float's pattern b, most significant first; the Reader returns kFloat
\* with argument b, and for a b that is not a NaN getFloat() has the
\* pattern b again.  writeDouble prints FB and the eight bytes of the
\* pattern, and the Reader returns kDouble with that pattern as argument
\* and as the value of getDouble().
C16_FloatBitExact ==
    /\ wrote.op = "writeFloat" =>
          /\ Len(out_) = 5 /\ out_[1] = 250
          /\ BigEndian(Tail(out_)) = wrote.arg
          /\ ReadToEnd
          /\ Decoded =>
                /\ lastRet = "kFloat"
                /\ value_ = wrote.arg
                /\ ~IsNaN32(wrote.arg) => getFloat(Rec) = wrote.arg
    /\ wrote.op = "writeDouble" =>
          /\ Len(out_) = 9 /\ out_[1] = 251
          /\ BigEndian(Tail(out_)) = wrote.arg
          /\ ReadToEnd
          /\ Decoded =>
                /\ lastRet = "kDouble"
                /\ value_ = wrote.arg
                /\ getDouble(Rec) = wrote.arg

\* C16 witness: the float nearest to -pi (C0 49 0F DB) read back
C16_Witness ==
    /\ wrote = [op |-> "writeFloat", arg |-> <<0, 0, 49225, 4059>>]
    /\ out_ = <<250, 192, 73, 15, 219>>
    /\ lastRet = "kFloat"
    /\ getFloat(Rec) = <<0, 0, 49225, 4059>>

\* m * 2^x with the factors of two moved out of m
RECURSIVE Reduce(_, _)
Reduce(m, x) ==
    IF m = 0 THEN <<0, 0>>
    ELSE IF m % 2 = 0 THEN Reduce(m \div 2, x + 1)
    ELSE <<m, x>>

\* the magnitude of the double d as a reduced m * 2^x, for a zero or a
\* normal number whose low 29 fraction bits are 0
DblMagnitude(d) ==
    IF DblExp(d) = 0 /\ DblFracHi(d) = 0 /\ DblFracLo(d) = 0 THEN <<0, 0>>
    ELSE IF DblExp(d) \in 1..2046 /\ DblFracLo(d) = 0
    THEN Reduce(Pow2(23) + DblFracHi(d), DblExp(d) - 1023 - 23)
    ELSE <<-1, 0>>

\* C17 (under HalfSpec): for a half-precision item F9 hh ll with sign s,
\* exponent e and fraction m, getDouble() is m * 2^-24 when e = 0,
\* (m + 1024) * 2^(e - 25) when 1 <= e <= 30, infinity when e = 31 and
\* m = 0, a NaN when e = 31 and m # 0, with the sign bit s; F9 3C 00 is
\* 1.0 exactly.
C17_HalfPrecision ==
    (lastRet = "kFloat" /\ hdr[1] = 249) =>
        LET h == hdr[2] * 256 + hdr[3]
            s == h \div 32768
            e == (h \div 1024) % 32
            m == h % 1024
            d == getDouble(Rec)
        IN  /\ DblSign(d) = s
            /\ e = 0 => DblMagnitude(d) = Reduce(m, -24)
            /\ e \in 1..30 => DblMagnitude(d) = Reduce(m + 1024, e - 25)
            /\ (e = 31 /\ m = 0) =>
                  (DblExp(d) = 2047 /\ DblFracHi(d) = 0 /\ DblFracLo(d) = 0)
            /\ (e = 31 /\ m # 0) =>
                  (DblExp(d) = 2047 /\ (DblFracHi(d) # 0 \/ DblFracLo(d) # 0))
            /\ h = 15360 => d = <<16368, 0, 0, 0>>

\* C17 witness: F9 3C 00 was read and getDouble() is 1.0
C17_Witness ==
    /\ lastRet = "kFloat"
    /\ hdr = <<249, 60, 0>>
    /\ getDouble(Rec) = <<16368, 0, 0, 0>>

-----------------------------------------------------------------------------
(* What readDataType takes from the stream, checked under Spec *)

\* the bytes every readDataType call so far has taken from the stream
Consumed == Len(input) - Len(pending) - Len(in_)

\* C18: a readDataType call takes header bytes only.  A call that returns
\* a type has taken, together with the calls that returned kEOS for the
\* same item, the initial byte and the 0, 1, 2, 4 or 8 argument bytes its
\* additional info announces and nothing after them, so the next call
\* starts on the byte after the head, be it payload, an element or a
\* tagged item.  A call that returns kEOS takes the initial byte alone (and
\* then waits in kWaitAvailable) or nothing; from kWaitAvailable it takes
\* nothing.  9F 01 02 FF is returned as kArray (indefinite), kUnsignedInt 1,
\* kUnsignedInt 2, kBreak by four calls of one byte each.
C18_HeaderBytesOnly ==
    [][ReadDataType =>
          LET c == Len(in_) - Len(in_')
              done == lastRet' \notin {"kEOS", "kSyntaxError"}
              end == Consumed + c
          IN  /\ (state_ = "kStart" /\ in_ = <<>>) =>
                    (c = 0 /\ lastRet' = "kEOS")
              /\ (state_ = "kStart" /\ in_ # <<>> /\ lastRet' = "kEOS") =>
                    (c = 1 /\ state_' = "kWaitAvailable")
              /\ (state_ = "kStart" /\ in_ # <<>> /\ done) =>
                    c = HeadLen(in_[1])
              /\ (state_ = "kWaitAvailable" /\ lastRet' = "kEOS") => c = 0
              /\ (state_ = "kWaitAvailable" /\ done) =>
                    c = HeadLen(hdr[1]) - 1
              /\ done =>
                    /\ Len(hdr') = HeadLen(hdr'[1])
                    /\ hdr' = SubSeq(input, end - Len(hdr') + 1, end)
              /\ (input = <<159, 1, 2, 255>> /\ done) =>
                    /\ c = 1
                    /\ end = 1 =>
                          (lastRet' = "kArray" /\ majorType_' = kArray
                             /\ addlInfo_' = 31)
                    /\ end = 2 =>
                          (lastRet' = "kUnsignedInt" /\ value_' = U64(1))
                    /\ end = 3 =>
                          (lastRet' = "kUnsignedInt" /\ value_' = U64(2))
                    /\ end = 4 => lastRet' = "kBreak"]_vars

\* C18 witness: the fourth call on 9F 01 02 FF returned kBreak
C18_Witness ==
    /\ input = <<159, 1, 2, 255>>
    /\ lastRet = "kBreak"
    /\ hdr = <<255>>
    /\ Consumed = 4

-----------------------------------------------------------------------------
(* Truncated input, checked under TruncSpec *)

\* p is s cut short
IsProperPrefix(p, s) == Len(p) < Len(s) /\ p = SubSeq(s, 1, Len(p))

\* C19: the check on a stream that holds a proper prefix (the empty one
\* included) of an item it accepts, and then has no byte, returns -1, and
\* bool isWellFormed() returns false.
C19_TruncationRejected ==
    (Checked /\ IsProperPrefix(wfIn, input)) => (wfRet = -1 /\ ~retval)

\* C19 witness: 9F 00 FF cut before its Break
C19_Witness ==
    /\ input = <<159, 0, 255>>
    /\ wfIn = <<159, 0>>
    /\ wfRet = -1
    /\ in_ = <<>>

-----------------------------------------------------------------------------
(* Where an accepting check leaves the stream, checked under ChkSpec *)

\* the argument in the head that starts at s[p], when it is below 2^16
\* (-1 when it is not)
SmallArgument(s, p) ==
    LET hl == HeadLen(s[p])
    IN  IF hl = 1 THEN s[p] % 32
        ELSE IF \A i \in (p + 1)..(p + hl - 3) : s[i] = 0
        THEN (IF hl > 2 THEN 256 * s[p + hl - 2] ELSE 0) + s[p + hl - 1]
        ELSE -1

\* The extent of the data item that starts at s[p]: the index of the first
\* byte after its head, its payload, its nested items and its Break, or 0
\* when s holds no complete item there.  Only the extent is looked at: the
\* items between the head of an indefinite-length item and its Break may be
\* any items.
RECURSIVE ItemEnd(_, _), ItemsEnd(_, _, _), BreakEnd(_, _, _)
ItemEnd(s, p) ==
    IF p > Len(s) THEN 0
    ELSE LET major == s[p] \div 32
             addl == s[p] % 32
             q == p + HeadLen(s[p])
             n == SmallArgument(s, p)
         IN  CASE addl \in 28..30 \/ q - 1 > Len(s) -> 0
               [] addl = 31 ->
                    IF major \in {2, 3, 4} THEN BreakEnd(s, q, 1)
                    ELSE IF major = 5 THEN BreakEnd(s, q, 2)
                    ELSE 0
               [] n < 0 -> 0
               [] major \in {2, 3} -> IF q + n - 1 > Len(s) THEN 0 ELSE q + n
               [] major = 4 -> ItemsEnd(s, q, n)
               [] major = 5 -> ItemsEnd(s, q, 2 * n)
               [] major = 6 -> ItemEnd(s, q)
               [] major = 7 /\ addl = 24 /\ n < 32 -> 0
               [] OTHER -> q

\* n items in a row from s[p]
ItemsEnd(s, p, n) ==
    IF n = 0 THEN p
    ELSE IF p > Len(s) THEN 0
    ELSE LET e == ItemEnd(s, p)
         IN  IF e = 0 THEN 0 ELSE ItemsEnd(s, e, n - 1)

\* groups of k items from s[p] up to a Break where a group would start
BreakEnd(s, p, k) ==
    IF p > Len(s) THEN 0
    ELSE IF s[p] = 255 THEN p + 1
    ELSE LET e == ItemsEnd(s, p, k)
         IN  IF e = 0 THEN 0 ELSE BreakEnd(s, e, k)

\* the check accepts s and reads it to its last byte
Whole(s) ==
    LET r == isWellFormedB(FALSE, Top, s, {})
    IN  r.ret >= 0 /\ r.in_ = <<>>

\* C20: a check that returns 0 or more has read one complete item (head,
\* payload, nested items, Break) and not a byte more, so the stream stands
\* at the first byte after it; on two accepted items in a row the first
\* check stops after the first item and the check of the rest accepts the
\* second.
C20_ConsumesOneItem ==
    Checked =>
        /\ wfRet >= 0 =>
              LET e == ItemEnd(wfIn, 1)
              IN  /\ e = Len(wfIn) - Len(in_) + 1
                  /\ in_ = SubSeq(wfIn, e, Len(wfIn))
        /\ \A k \in 1..(Len(input) - 1) :
              LET first == SubSeq(input, 1, k)
                  second == SubSeq(input, k + 1, Len(input))
              IN  (/\ ~wfBreakable
                   /\ wfIn \in {input, second}
                   /\ Whole(first)
                   /\ Whole(second)) =>
                      /\ wfIn = input => (wfRet >= 0 /\ in_ = second)
                      /\ wfIn = second => (wfRet >= 0 /\ in_ = <<>>)

\* C20 witness: 41 00 9F FF, a one-byte Bytes item and an empty indefinite
\* Array; the second check accepted the Array
C20_Witness ==
    /\ input = <<65, 0, 159, 255>>
    /\ wfIn = <<159, 255>>
    /\ ~wfBreakable
    /\ wfRet = kArray
    /\ in_ = <<>>

-----------------------------------------------------------------------------
(* Termination of the check, checked under StepSpec *)

\* the check has returned
Done == Checked /\ stack = <<>>

\* a step that enters a call or starts a round of the payload loop
ReadingStep ==
    /\ stack # <<>>
    /\ \/ Head(stack).pc = "isWellFormed"
       \/ Head(stack).pc = "payload" /\ Head(stack).left # U64Zero

\* C21: on a finite stream the check returns, whatever counts the heads
\* announce and however the indefinite-length items are nested: every call
\* of isWellFormed(bool) and every round of a payload loop takes at least
\* one byte from the stream or returns -1, and every round of the other
\* loops makes such a call.  The value returned, and the stream left, are
\* those of the check taken as one step.
C21_CheckTerminates ==
    /\ <>Done
    /\ [][ReadingStep =>
             \/ Len(in_') < Len(in_)
             \/ Head(stack') = ReturnFrame(-1)]_vars
    /\ [](Done => LET r == isWellFormedB(FALSE, Top, wfIn, {})
                  IN  wfRet = r.ret /\ in_ = r.in_)

\* C21 witness: an Array head that announces 2^64 - 1 elements, followed by
\* two; the check has returned -1 with the stream read to its end
C21_Witness ==
    /\ wfIn = <<155, 255, 255, 255, 255, 255, 255, 255, 255, 0, 0>>
    /\ Done
    /\ wfRet = -1
    /\ in_ = <<>>

-----------------------------------------------------------------------------
(* Simple values written and read back, checked under WrSpec *)

\* C22: the output of writeSimpleValue(v), v in 0..255, is accepted by the
\* check and read without kSyntaxError exactly when v is not in 24..31
\* (for those the output is F8 v, which the Reader reports as
\* kBadSimpleValue); the Reader returns kSimpleValue, with getSimpleValue()
\* = v, exactly for v in 0..19 and 32..255; 20 and 21 are read as kBoolean,
\* 22 as kNull, 23 as kUndefined.
C22_SimpleValueRoundTrip ==
    wrote.op = "writeSimpleValue" =>
        LET v == wrote.arg[4]
            chk == isWellFormedB(FALSE, Top, out_, {})
        IN  /\ (chk.ret >= 0 /\ chk.in_ = <<>>) <=> v \notin 24..31
            /\ v \in 24..31 => (out_ = <<248, v>> /\ chk.ret = -1)
            /\ ReadToEnd
            /\ Decoded =>
                  /\ lastRet # "kSyntaxError" <=> v \notin 24..31
                  /\ lastRet = "kSyntaxError" =>
                        syntaxError_ = "kBadSimpleValue"
                  /\ lastRet = "kSimpleValue" <=>
                        (v \in 0..19 \/ v \in 32..255)
                  /\ lastRet = "kSimpleValue" => getSimpleValue(Rec) = v
                  /\ v \in {20, 21} => lastRet = "kBoolean"
                  /\ v = 22 => lastRet = "kNull"
                  /\ v = 23 => lastRet = "kUndefined"

\* C22 witness: writeSimpleValue(24) printed F8 18 and the Reader reported
\* a bad simple value
C22_Witness ==
    /\ wrote = [op |-> "writeSimpleValue", arg |-> <<0, 0, 0, 24>>]
    /\ out_ = <<248, 24>>
    /\ lastRet = "kSyntaxError"
    /\ syntaxError_ = "kBadSimpleValue"

=============================================================================
